---- MODULE Spec2Model ----
(***************************************************************************)
(* Model of dotfiles_kaizen/main.py: the three API clients with their      *)
(* retry loops, the issue tracker they talk to, the sequential pipeline    *)
(* of DotfilesKaizen.run_domain_analysis driven by main(), and the pure    *)
(* string helpers (_extract_section, _format_sources, the excluded-term    *)
(* filter of collect_trends).                                              *)
(*                                                                         *)
(* Strings are sequences of one-character strings, except that the fixed   *)
(* literals of a formatted string ("[Dotfiles Kaizen] ", " - ", a date)    *)
(* are single atoms of the sequence.                                       *)
(***************************************************************************)
EXTENDS Integers, Sequences, FiniteSets, TLC

VARIABLES
    pc,              \* position of main(): "init", a pipeline step, or "exited"
    exit_status,     \* -1 while running, else the status the process exited with
    cur,             \* index in Domains of the domain being analysed (0: none)
    attempt,         \* loop variable of the retry loop in progress
    steps,           \* calls made by the current run, and how each ended
    log,             \* requests, answers and sleeps of the latest client call
    existing_issue,  \* number returned by find_existing_issue (0: None)
    create_call,     \* arguments of the create_issue call of the current run
    issue_labels,    \* global_settings["issue_labels"] of the loaded config
    today,           \* index of the current UTC date
    tracker,         \* issues of the repository on the tracker, by number
    runs,            \* number of processes started so far
    search_failed,   \* some issue search did not succeed so far
    closed_any,      \* some tracking issue was closed so far
    fn,              \* pure-function specifications: the function applied
    text,            \* _extract_section: text
    section_name,    \* _extract_section: section_name
    results,         \* collect_trends: results["results"] of the search
    exclude_terms,   \* collect_trends: search_hints["exclude_terms"]
    sources,         \* _format_sources: sources
    target_patterns, \* read_target_files: per pattern, the files base.glob yields
    file_state,      \* read_target_files: what read_text does on each file
    ret              \* pure-function specifications: the value returned

vars == <<pc, exit_status, cur, attempt, steps, log, existing_issue,
          create_call, issue_labels, today, tracker, runs, search_failed,
          closed_any, fn, text, section_name, results, exclude_terms, sources,
          target_patterns, file_state, ret>>

pipeVars == <<pc, exit_status, cur, attempt, steps, log, existing_issue,
              create_call, issue_labels, today, tracker, runs, search_failed,
              closed_any>>

pureVars == <<fn, text, section_name, results, exclude_terms, sources,
              target_patterns, file_state, ret>>

----------------------------------------------------------------------------
(* Program constants and bounds *)

MAX_RETRIES == 3
RETRY_DELAY == 2

MaxRuns == 3
MaxDate == 2

----------------------------------------------------------------------------
(* Generic string helpers *)

Min(a, b) == IF a < b THEN a ELSE b

\* Python's  t in s
Contains(s, t) ==
    \E i \in 0..(Len(s) - Len(t)) : SubSeq(s, i + 1, i + Len(t)) = t

\* Python's  s.find(t, from)  with 0-based positions; -1 when absent
Find(s, t, from) ==
    LET hits == {i \in from..(Len(s) - Len(t)) : SubSeq(s, i + 1, i + Len(t)) = t}
    IN IF hits = {} THEN -1
       ELSE CHOOSE i \in hits : \A j \in hits : i <= j

----------------------------------------------------------------------------
(* Configuration *)

Domains ==
    << [id |-> "vim",         name |-> <<"V", "i", "m">>],
       [id |-> "vim-plugins", name |-> <<"V", "i", "m", "+">>] >>

DomainIds == {"vim", "vim-plugins", "unknown"}

\* global_settings with and without the issue_labels key
LabelSettings ==
    { [present |-> TRUE,  value |-> <<"kaizen", "auto">>],
      [present |-> FALSE, value |-> <<>>] }

DateStr == <<"2026-01-01", "2026-01-02", "2026-01-03", "2026-01-04">>

\* index of the first domain with that id, 0 for None
get_domain_config(domain_id) ==
    LET hits == {i \in 1..Len(Domains) : Domains[i].id = domain_id}
    IN IF hits = {} THEN 0
       ELSE CHOOSE i \in hits : \A j \in hits : i <= j

----------------------------------------------------------------------------
(* Retry loop shared by the three clients *)

IsLastAttempt(a) == a = MAX_RETRIES - 1

\* the delay computed from the 0-based loop variable
Backoff_zero_based(a) == RETRY_DELAY * a

Backoff(a) == RETRY_DELAY * (a + 1)

\* requests.RequestException: transport failures and raise_for_status()
IsRequestException(outcome) == outcome \in {"transport", "http_error"}

Ev(kind, op, n) == [kind |-> kind, op |-> op, n |-> n]

\* every exit reports success
Exit_always_zero(status) ==
    /\ pc' = "exited"
    /\ exit_status' = 0

Exit(status) ==
    /\ pc' = "exited"
    /\ exit_status' = status

\* One iteration of  for attempt in range(MAX_RETRIES)  of client op; the
\* call is entered at attempt 0 and, when it returns, control goes to next_pc.
\* The log records each request, what became of it, and the sleep after it
RetryIteration(op, outcome, next_pc) ==
    LET entered == IF attempt = 0 THEN steps \o <<Ev("call", op, 0)>> ELSE steps
        sent    == (IF attempt = 0 THEN <<>> ELSE log)
                       \o <<Ev("request", op, attempt + 1), Ev(outcome, op, attempt + 1)>>
    IN IF IsRequestException(outcome) /\ ~IsLastAttempt(attempt)
       THEN /\ log' = sent \o <<Ev("sleep", op, Backoff(attempt))>>
            /\ steps' = entered
            /\ attempt' = attempt + 1
            /\ UNCHANGED <<pc, exit_status>>
       ELSE /\ log' = sent
            /\ attempt' = 0
            /\ IF outcome = "ok"
               THEN /\ steps' = entered \o <<Ev("return", op, 0)>>
                    /\ pc' = next_pc
                    /\ exit_status' = IF next_pc = "exited" THEN 0 ELSE exit_status
               ELSE /\ steps' = entered \o <<Ev("raise", op, 0)>>
                    /\ Exit(1)

----------------------------------------------------------------------------
(* The issue tracker, as the GitHub client's requests address it *)

TAG == "[Dotfiles Kaizen] "

\* the lookup uses the dated title
TitlePrefix_dated(d) == <<TAG>> \o Domains[d].name \o <<" - ", DateStr[today]>>

TitlePrefix(d) == <<TAG>> \o Domains[d].name

Title(d, date) == TitlePrefix(d) \o <<" - ", DateStr[date]>>

\* the domain id is put in front of the global labels
Labels_id_first(d) ==
    <<Domains[d].id>>
        \o (IF issue_labels.present THEN issue_labels.value ELSE <<"dotfiles-kaizen">>)

Labels(d) ==
    (IF issue_labels.present THEN issue_labels.value ELSE <<"dotfiles-kaizen">>)
        \o <<Domains[d].id>>

\* q = "repo:... is:issue is:open in:title <title_prefix>"
SearchMatches(title_prefix) ==
    {i \in 1..Len(tracker) : tracker[i].open /\ Contains(tracker[i].title, title_prefix)}

RECURSIVE Ascending(_)
Ascending(S) ==
    IF S = {} THEN <<>>
    ELSE LET m == CHOOSE x \in S : \A y \in S : x <= y
         IN <<m>> \o Ascending(S \ {m})

\* Bodies the search endpoint can answer with: the matches in an order of the
\* server's choosing, or a body of another shape
SearchResponses(title_prefix) ==
    LET M == SearchMatches(title_prefix)
    IN  { [status |-> "ok", has_total |-> TRUE, total_count |-> Cardinality(M),
           items |-> <<m>> \o Ascending(M \ {m})] : m \in M }
        \cup (IF M = {} THEN { [status |-> "ok", has_total |-> TRUE,
                                total_count |-> 0, items |-> <<>>] } ELSE {})
        \cup { [status |-> "ok", has_total |-> FALSE, total_count |-> 0, items |-> <<>>],
               [status |-> "ok", has_total |-> TRUE, total_count |-> 1, items |-> <<>>],
               [status |-> "transport", has_total |-> FALSE, total_count |-> 0, items |-> <<>>],
               [status |-> "http_error", has_total |-> FALSE, total_count |-> 0, items |-> <<>>] }

WellFormed(resp) ==
    resp.status = "ok" /\ resp.has_total /\ resp.total_count = Len(resp.items)

\* GitHubClient.find_existing_issue on a response: the issue number returned
\* (0 for None), or raised when an exception leaves the function
find_existing_issue(resp) ==
    IF IsRequestException(resp.status) THEN [raised |-> FALSE, issue |-> 0]
    ELSE IF ~resp.has_total THEN [raised |-> TRUE, issue |-> 0]
    ELSE IF resp.total_count > 0
         THEN IF Len(resp.items) = 0 THEN [raised |-> TRUE, issue |-> 0]
              ELSE [raised |-> FALSE, issue |-> resp.items[1]]
         ELSE [raised |-> FALSE, issue |-> 0]

NewIssue(d, title, labels) ==
    [number |-> Len(tracker) + 1, title |-> title, labels |-> labels,
     open |-> TRUE, comments |-> 0, domain |-> d]

NoCall == [title |-> <<>>, labels |-> <<>>]

----------------------------------------------------------------------------
(* The pipeline: main() and DotfilesKaizen.run_domain_analysis *)

PipeInit ==
    /\ pc = "init"
    /\ exit_status = -1
    /\ cur = 0
    /\ attempt = 0
    /\ steps = <<>>
    /\ log = <<>>
    /\ existing_issue = 0
    /\ create_call = NoCall
    /\ issue_labels \in LabelSettings
    /\ today = 1
    /\ tracker = <<>>
    /\ runs = 0
    /\ search_failed = FALSE
    /\ closed_any = FALSE

PureIdle ==
    /\ fn = "none"
    /\ text = <<>>
    /\ section_name = <<>>
    /\ results = <<>>
    /\ exclude_terms = <<>>
    /\ sources = <<>>
    /\ target_patterns = <<>>
    /\ file_state = <<>>
    /\ ret = <<>>

\* main() up to the first phase: load the config, construct the clients
\* (ValueError when a credential is missing), look the domain up
Main(domain_id, creds_ok, date) ==
    /\ pc \in {"init", "exited"}
    /\ runs < MaxRuns
    /\ runs' = runs + 1
    /\ today' = date
    /\ steps' = <<>>
    /\ log' = <<>>
    /\ attempt' = 0
    /\ existing_issue' = 0
    /\ create_call' = NoCall
    /\ LET domain == get_domain_config(domain_id)
       IN IF ~creds_ok \/ domain = 0
          THEN /\ cur' = 0
               /\ Exit(1)
          ELSE /\ cur' = domain
               /\ pc' = "collect"
               /\ exit_status' = -1
    /\ UNCHANGED <<issue_labels, tracker, search_failed, closed_any>>

\* Phase 1: collect_trends, one attempt of TavilyClient.search
TavilySearch(outcome) ==
    /\ pc = "collect"
    /\ RetryIteration("search", outcome, "read")
    /\ UNCHANGED <<cur, existing_issue, create_call, issue_labels, today,
                   tracker, runs, search_failed, closed_any>>

\* read_target_files: no network; an error other than OSError propagates
ReadTargetFiles(ok) ==
    /\ pc = "read"
    /\ steps' = steps \o <<Ev("call", "read", 0),
                           Ev(IF ok THEN "return" ELSE "raise", "read", 0)>>
    /\ log' = <<>>
    /\ IF ok THEN pc' = "analyze" /\ UNCHANGED exit_status
       ELSE Exit(1)
    /\ UNCHANGED <<cur, attempt, existing_issue, create_call, issue_labels,
                   today, tracker, runs, search_failed, closed_any>>

\* Phase 2: analyze_content, one attempt of AnthropicClient.generate_response;
\* "bad_body" is a 200 answer without content[0].text (KeyError, IndexError)
GenerateResponse(outcome) ==
    /\ pc = "analyze"
    /\ RetryIteration("generate_response", outcome, "find")
    /\ UNCHANGED <<cur, existing_issue, create_call, issue_labels, today,
                   tracker, runs, search_failed, closed_any>>

\* Phase 3, first half: report_findings up to the branch on existing_issue
FindExistingIssue(resp) ==
    /\ pc = "find"
    /\ resp \in SearchResponses(TitlePrefix(cur))
    /\ LET r == find_existing_issue(resp)
       IN /\ steps' = steps \o <<Ev("call", "find_existing_issue", 0),
                                 Ev(IF r.raised THEN "raise" ELSE "return",
                                    "find_existing_issue", r.issue)>>
          /\ log' = <<Ev("request", "find_existing_issue", 1),
                      Ev(resp.status, "find_existing_issue", 1)>>
          /\ existing_issue' = r.issue
          /\ IF r.raised THEN Exit(1)
             ELSE /\ pc' = IF r.issue # 0 THEN "comment" ELSE "create"
                  /\ UNCHANGED exit_status
    /\ search_failed' = (search_failed \/ ~WellFormed(resp))
    /\ UNCHANGED <<cur, attempt, create_call, issue_labels, today, tracker,
                   runs, closed_any>>

\* add_comment wrapped in the retry loop of the other writes
AddComment_retried(outcome) ==
    /\ pc = "comment"
    /\ tracker' = IF outcome = "ok"
                  THEN [tracker EXCEPT ![existing_issue].comments = @ + 1]
                  ELSE tracker
    /\ RetryIteration("add_comment", outcome, "exited")
    /\ UNCHANGED <<cur, existing_issue, create_call, issue_labels, today,
                   runs, search_failed, closed_any>>

\* Phase 3, existing issue: GitHubClient.add_comment, then main() returns
AddComment(outcome) ==
    /\ pc = "comment"
    /\ steps' = steps \o <<Ev("call", "add_comment", existing_issue),
                           Ev(IF outcome = "ok" THEN "return" ELSE "raise",
                              "add_comment", 0)>>
    /\ log' = <<Ev("request", "add_comment", existing_issue),
                Ev(outcome, "add_comment", existing_issue)>>
    /\ IF outcome = "ok"
       THEN /\ tracker' = [tracker EXCEPT ![existing_issue].comments = @ + 1]
            /\ Exit(0)
       ELSE /\ UNCHANGED tracker
            /\ Exit(1)
    /\ UNCHANGED <<cur, attempt, existing_issue, create_call, issue_labels,
                   today, runs, search_failed, closed_any>>

\* Phase 3, no existing issue: one attempt of GitHubClient.create_issue
CreateIssue(outcome) ==
    /\ pc = "create"
    /\ LET title  == Title(cur, today)
           labels == Labels(cur)
       IN /\ create_call' = [title |-> title, labels |-> labels]
          /\ tracker' = IF outcome = "ok"
                        THEN Append(tracker, NewIssue(cur, title, labels))
                        ELSE tracker
    /\ RetryIteration("create_issue", outcome, "exited")
    /\ UNCHANGED <<cur, existing_issue, issue_labels, today, runs,
                   search_failed, closed_any>>

\* Somebody closes an issue on the tracker between two runs
CloseIssue(i) ==
    /\ pc = "exited"
    /\ i \in 1..Len(tracker)
    /\ tracker[i].open
    /\ tracker' = [tracker EXCEPT ![i].open = FALSE]
    /\ closed_any' = TRUE
    /\ UNCHANGED <<pc, exit_status, cur, attempt, steps, log, existing_issue,
                   create_call, issue_labels, today, runs, search_failed>>

RequestOutcomes == {"ok", "transport", "http_error"}

Init == PipeInit /\ PureIdle

Next ==
    \/ \E id \in DomainIds, c \in BOOLEAN, date \in {today, Min(today + 1, MaxDate)} :
           Main(id, c, date) /\ UNCHANGED pureVars
    \/ \E o \in RequestOutcomes : TavilySearch(o) /\ UNCHANGED pureVars
    \/ \E ok \in BOOLEAN : ReadTargetFiles(ok) /\ UNCHANGED pureVars
    \/ \E o \in RequestOutcomes \cup {"bad_body"} : GenerateResponse(o) /\ UNCHANGED pureVars
    \/ /\ pc = "find"
       /\ \E resp \in SearchResponses(TitlePrefix(cur)) : FindExistingIssue(resp)
       /\ UNCHANGED pureVars
    \/ \E o \in RequestOutcomes : AddComment(o) /\ UNCHANGED pureVars
    \/ \E o \in RequestOutcomes : CreateIssue(o) /\ UNCHANGED pureVars
    \/ \E i \in 1..Len(tracker) : CloseIssue(i) /\ UNCHANGED pureVars

Spec == Init /\ [][Next]_vars

----------------------------------------------------------------------------
(* _extract_section *)

MaxTokens == 6

Whitespace == {" ", "\n"}

\* Python's  s.strip()
Strip(s) ==
    LET inked == {i \in 1..Len(s) : s[i] \notin Whitespace}
    IN IF inked = {} THEN <<>>
       ELSE SubSeq(s, CHOOSE i \in inked : \A j \in inked : i <= j,
                      CHOOSE i \in inked : \A j \in inked : i >= j)

Header(name) == <<"#", "#", " ">> \o name

\* the section ends at the next header of any level
extract_section_any_level(t, name) ==
    LET header == Header(name)
        start  == Find(t, header, 0)
    IN IF start = -1 THEN <<>>
       ELSE LET content_start      == start + Len(header)
                next_section_start == Find(t, <<"\n", "#">>, content_start)
            IN IF next_section_start = -1
               THEN Strip(SubSeq(t, content_start + 1, Len(t)))
               ELSE Strip(SubSeq(t, content_start + 1, next_section_start))

\* the ValueError of text.index is not caught: the missing header raises
extract_section_uncaught(t, name) ==
    LET header == Header(name)
        start  == Find(t, header, 0)
    IN IF start = -1 THEN [raised |-> TRUE, value |-> <<>>]
       ELSE [raised |-> FALSE, value |-> extract_section_any_level(t, name)]

\* DotfilesKaizen._extract_section: start is -1 where text.index raises
\* ValueError, which the except clause turns into ""
extract_section_value(t, name) ==
    LET header == Header(name)
        start  == Find(t, header, 0)
    IN IF start = -1 THEN <<>>
       ELSE LET content_start      == start + Len(header)
                next_section_start == Find(t, <<"\n", "#", "#", " ">>, content_start)
            IN IF next_section_start = -1
               THEN Strip(SubSeq(t, content_start + 1, Len(t)))
               ELSE Strip(SubSeq(t, content_start + 1, next_section_start))

\* the outcome of the call: no exception leaves the try block
extract_section(t, name) ==
    [raised |-> FALSE, value |-> extract_section_value(t, name)]

Tokens ==
    { <<"#", "#", " ", "A">>, <<"#", "#", " ", "B">>, <<"\n">>, <<"x">>, <<" ">>, <<"#">> }

SectionNames == { <<"A">>, <<"B">> }

RECURSIVE Flatten(_)
Flatten(ts) == IF ts = <<>> THEN <<>> ELSE Head(ts) \o Flatten(Tail(ts))

Texts == { Flatten(ts) : ts \in UNION { [1..n -> Tokens] : n \in 0..MaxTokens } }

PipeIdle == PipeInit /\ issue_labels.present

ExtractInit ==
    /\ PipeIdle
    /\ fn = "none"
    /\ text \in Texts
    /\ section_name \in SectionNames
    /\ results = <<>>
    /\ exclude_terms = <<>>
    /\ sources = <<>>
    /\ target_patterns = <<>>
    /\ file_state = <<>>
    /\ ret = <<>>

ExtractSection ==
    /\ fn = "none"
    /\ fn' = "_extract_section"
    /\ ret' = extract_section(text, section_name)
    /\ UNCHANGED <<text, section_name, results, exclude_terms, sources,
                   target_patterns, file_state>>
    /\ UNCHANGED pipeVars

ExtractNext == ExtractSection

SpecExtract == ExtractInit /\ [][ExtractNext]_vars

----------------------------------------------------------------------------
(* collect_trends: the excluded-term filter *)

MaxResults == 3
MaxTerms == 2

\* Python's  c.lower()  on the characters of the model
LowerChar(c) ==
    CASE c = "S" -> "s"
      [] c = "P" -> "p"
      [] OTHER   -> c

Lower(str) == [i \in 1..Len(str) |-> LowerChar(str[i])]

\* the terms are compared as configured, without lower-casing them
IsExcluded_terms_as_is(result, terms) ==
    LET title_lower   == Lower(result.title)
        content_lower == Lower(result.content)
    IN \E k \in 1..Len(terms) :
           Contains(title_lower, terms[k]) \/ Contains(content_lower, terms[k])

\* any(term in title_lower or term in content_lower for term in exclude_terms)
IsExcluded(result, terms) ==
    LET title_lower   == Lower(result.title)
        content_lower == Lower(result.content)
        lowered       == [k \in 1..Len(terms) |-> Lower(terms[k])]
    IN \E k \in 1..Len(lowered) :
           Contains(title_lower, lowered[k]) \/ Contains(content_lower, lowered[k])

\* the loop over results.get("results", []) building sources
RECURSIVE FilterResults(_, _)
FilterResults(rs, terms) ==
    IF rs = <<>> THEN <<>>
    ELSE IF IsExcluded(Head(rs), terms)
         THEN FilterResults(Tail(rs), terms)
         ELSE <<Head(rs)>> \o FilterResults(Tail(rs), terms)

ResultPool ==
    { [title |-> t, content |-> c] :
          t \in { <<"o", "k">>, <<"S", "p">> },
          c \in { <<>>, <<"s", "P", "o">>, <<"p", "s">>, <<"k", "o">> } }

TermPool == { <<"s", "p">>, <<"S", "P">>, <<"P">>, <<"o", "k">>, <<>> }

SeqsUpTo(S, n) == UNION { [1..k -> S] : k \in 0..n }

FilterInit ==
    /\ PipeIdle
    /\ fn = "none"
    /\ text = <<>>
    /\ section_name = <<>>
    /\ results \in SeqsUpTo(ResultPool, MaxResults)
    /\ exclude_terms \in SeqsUpTo(TermPool, MaxTerms)
    /\ sources = <<>>
    /\ target_patterns = <<>>
    /\ file_state = <<>>
    /\ ret = <<>>

\* collect_trends from the search result to the ResearchOutput it returns
CollectTrends ==
    /\ fn = "none"
    /\ fn' = "collect_trends"
    /\ ret' = [sources |-> FilterResults(results, exclude_terms)]
    /\ UNCHANGED <<text, section_name, results, exclude_terms, sources,
                   target_patterns, file_state>>
    /\ UNCHANGED pipeVars

FilterNext == CollectTrends

SpecFilter == FilterInit /\ [][FilterNext]_vars

----------------------------------------------------------------------------
(* _format_sources *)

TRUNCATE_LEN == 200
TOP_SOURCES == 5

MaxSources == 6

\* the ellipsis is added from the limit on
Truncated_from_limit(content) ==
    SubSeq(content, 1, Min(TRUNCATE_LEN, Len(content)))
        \o (IF Len(content) >= TRUNCATE_LEN THEN <<".", ".", ".">> ELSE <<>>)

\* content = s.content[:200], followed by "..." if len(s.content) > 200
Truncated(content) ==
    SubSeq(content, 1, Min(TRUNCATE_LEN, Len(content)))
        \o (IF Len(content) > TRUNCATE_LEN THEN <<".", ".", ".">> ELSE <<>>)

\* f"- {s.title}: {content}"
FormatItem(s) == <<"-", " ">> \o s.title \o <<":", " ">> \o Truncated(s.content)

\* Python's  sep.join(items)
RECURSIVE Join(_, _)
Join(items, sep) ==
    IF items = <<>> THEN <<>>
    ELSE IF Len(items) = 1 THEN items[1]
         ELSE items[1] \o sep \o Join(Tail(items), sep)

format_sources(srcs) ==
    Join([i \in 1..Min(TOP_SOURCES, Len(srcs)) |-> FormatItem(srcs[i])], <<"\n">>)

\* a content of n characters, no two neighbours alike
ContentOfLen(n) == [i \in 1..n |-> IF i % 3 = 0 THEN "c" ELSE IF i % 3 = 1 THEN "a" ELSE "b"]

SourcePool ==
    { [title |-> <<"S", "1">>, content |-> ContentOfLen(TRUNCATE_LEN)],
      [title |-> <<"S", "2">>, content |-> ContentOfLen(TRUNCATE_LEN + 1)],
      [title |-> <<"S", "3">>, content |-> <<".", ".", ".">>],
      [title |-> <<"S", "4">>, content |-> ContentOfLen(TRUNCATE_LEN + 7)] }

FormatInit ==
    /\ PipeIdle
    /\ fn = "none"
    /\ text = <<>>
    /\ section_name = <<>>
    /\ results = <<>>
    /\ exclude_terms = <<>>
    /\ sources \in SeqsUpTo(SourcePool, MaxSources)
    /\ target_patterns = <<>>
    /\ file_state = <<>>
    /\ ret = <<>>

FormatSources ==
    /\ fn = "none"
    /\ fn' = "_format_sources"
    /\ ret' = format_sources(sources)
    /\ UNCHANGED <<text, section_name, results, exclude_terms, sources,
                   target_patterns, file_state>>
    /\ UNCHANGED pipeVars

FormatNext == FormatSources

SpecFormat == FormatInit /\ [][FormatNext]_vars

----------------------------------------------------------------------------
(* read_target_files *)

MaxPatterns == 2

Files == {"a.md", "b.md"}

\* read_text(encoding="utf-8") returns the text, raises an OSError, or raises
\* UnicodeDecodeError (a ValueError) on bytes that are not UTF-8
ReadStates == {"ok", "os_error", "decode_error"}

FileContent(f) == IF f = "a.md" THEN <<"x">> ELSE <<>>

\* what base.glob(pattern) yields for the patterns of the model
MatchLists == { <<>>, <<"a.md">>, <<"b.md">>, <<"a.md", "b.md">>, <<"b.md", "a.md">> }

SEPARATOR == "\n\n---\n\n"

FALLBACK == "No matching files found."

\* f"### File: {relative_path}\n\n{content}"
Section(f) == <<"### File: ", f, "\n\n">> \o FileContent(f)

\* the two nested loops: parts appended so far, or the exception that
\* leaves the function; fs are the matched files still to be read, in order
RECURSIVE ReadAll(_, _, _)
ReadAll(fs, state, parts) ==
    IF fs = <<>> THEN [raised |-> FALSE, parts |-> parts]
    ELSE IF state[Head(fs)] = "ok"
         THEN ReadAll(Tail(fs), state, Append(parts, Section(Head(fs))))
         ELSE IF state[Head(fs)] = "os_error"
              THEN ReadAll(Tail(fs), state, parts)
              ELSE [raised |-> TRUE, parts |-> parts]

read_target_files(patterns, state) ==
    LET r == ReadAll(Flatten(patterns), state, <<>>)
    IN IF r.raised THEN [raised |-> TRUE, value |-> <<>>]
       ELSE [raised |-> FALSE,
             value  |-> IF r.parts # <<>> THEN Join(r.parts, <<SEPARATOR>>)
                        ELSE <<FALLBACK>>]

ReadInit ==
    /\ PipeIdle
    /\ fn = "none"
    /\ text = <<>>
    /\ section_name = <<>>
    /\ results = <<>>
    /\ exclude_terms = <<>>
    /\ sources = <<>>
    /\ target_patterns \in SeqsUpTo(MatchLists, MaxPatterns)
    /\ file_state \in [Files -> ReadStates]
    /\ ret = <<>>

ReadFiles ==
    /\ fn = "none"
    /\ fn' = "read_target_files"
    /\ ret' = read_target_files(target_patterns, file_state)
    /\ UNCHANGED <<text, section_name, results, exclude_terms, sources,
                   target_patterns, file_state>>
    /\ UNCHANGED pipeVars

ReadNext == ReadFiles

SpecRead == ReadInit /\ [][ReadNext]_vars

----------------------------------------------------------------------------
(* analyze_content: from the response of the completion client on *)

\* The section names analyze_content passes to _extract_section
GAP_ANALYSIS == <<"Gap Analysis">>
RECOMMENDATIONS == <<"Recommendations">>
IMPLEMENTATION_GUIDE == <<"Implementation Guide">>

\* The header texts the system prompt mandates, which are Japanese in the
\* source; each is one atom, written here by its reading
PROMPT_GAP == <<"Gyappu Bunseki">>
PROMPT_RECOMMENDATIONS == <<"Suishou Jikou">>
PROMPT_REFERENCES == <<"Sankou Shiryou">>
PROMPT_TIERS == << <<"Kou Yuusendo">>, <<"Chuu Yuusendo">>, <<"Tei Yuusendo">> >>

AnalysisOutput(full_response) ==
    [gap_analysis         |-> extract_section_value(full_response, GAP_ANALYSIS),
     recommendations      |-> extract_section_value(full_response, RECOMMENDATIONS),
     implementation_guide |-> extract_section_value(full_response, IMPLEMENTATION_GUIDE),
     full_response        |-> full_response]

Tier(k, item) == <<"#", "#", "#", " ">> \o PROMPT_TIERS[k] \o <<"\n">> \o item

\* a response of the four-part shape of the system prompt: gap analysis,
\* recommendations in three tiers, references, under the given header names
Response(names, gap, items, refs) ==
    <<"\n">> \o Header(names[1]) \o <<"\n">> \o gap \o <<"\n", "\n">>
        \o Header(names[2]) \o <<"\n">>
        \o Tier(1, items[1]) \o <<"\n", "\n">>
        \o Tier(2, items[2]) \o <<"\n", "\n">>
        \o Tier(3, items[3]) \o <<"\n", "\n">>
        \o Header(names[3]) \o <<"\n">> \o refs \o <<"\n">>

HeaderNames ==
    { <<PROMPT_GAP, PROMPT_RECOMMENDATIONS, PROMPT_REFERENCES>>,
      <<GAP_ANALYSIS, RECOMMENDATIONS, IMPLEMENTATION_GUIDE>> }

GapBodies == { <<"g">>, <<"g", "\n", "h">>, <<>> }

Items == { <<"-", " ", "[", " ", "]", " ", "x">>, <<"-", " ", "[", " ", "]", " ", "y">> }

RefBodies == { <<"r">>, <<>> }

Responses ==
    { Response(names, gap, items, refs) :
          names \in HeaderNames, gap \in GapBodies,
          items \in [1..3 -> Items], refs \in RefBodies }

AnalyzeInit ==
    /\ PipeIdle
    /\ fn = "none"
    /\ text \in Responses
    /\ section_name = <<>>
    /\ results = <<>>
    /\ exclude_terms = <<>>
    /\ sources = <<>>
    /\ target_patterns = <<>>
    /\ file_state = <<>>
    /\ ret = <<>>

\* analyze_content after generate_response returned text
AnalyzeContent ==
    /\ fn = "none"
    /\ fn' = "analyze_content"
    /\ ret' = AnalysisOutput(text)
    /\ UNCHANGED <<text, section_name, results, exclude_terms, sources,
                   target_patterns, file_state>>
    /\ UNCHANGED pipeVars

AnalyzeNext == AnalyzeContent

SpecAnalyze == AnalyzeInit /\ [][AnalyzeNext]_vars

----------------------------------------------------------------------------
(* Properties of the pipeline *)

Calls(op) ==
    Cardinality({i \in 1..Len(steps) : steps[i].kind = "call" /\ steps[i].op = op})

Requests(op) ==
    Cardinality({i \in 1..Len(log) : log[i].kind = "request" /\ log[i].op = op})

Mentions(op) ==
    \/ \E i \in 1..Len(steps) : steps[i].op = op
    \/ \E i \in 1..Len(log) : log[i].op = op

LastStep == steps[Len(steps)]

ConfiguredLabels ==
    IF issue_labels.present THEN issue_labels.value ELSE <<"dotfiles-kaizen">>

\* C1: in report_findings, when find_existing_issue returns an issue, one
\* comment is posted to that issue's number and create_issue is never called;
\* when it returns none, create_issue is called once, with the title
\* "[Dotfiles Kaizen] <name> - <today>" and the labels global issue_labels
\* followed by the domain id, and add_comment is never called; a run that
\* exits with status 0 has made exactly one of the two writes.
C1_FindOrCreate ==
    \A i \in 1..Len(steps) :
        (steps[i].kind = "return" /\ steps[i].op = "find_existing_issue") =>
            IF steps[i].n # 0
            THEN /\ ~Mentions("create_issue")
                 /\ Calls("add_comment") <= 1
                 /\ Requests("add_comment") <= 1
                 /\ \A j \in 1..Len(steps) :
                        (steps[j].op = "add_comment" /\ steps[j].kind = "call")
                            => steps[j].n = steps[i].n
                 /\ \A j \in 1..Len(log) :
                        (log[j].op = "add_comment" /\ log[j].kind = "request")
                            => log[j].n = steps[i].n
                 /\ exit_status = 0 =>
                        /\ Calls("add_comment") = 1
                        /\ Requests("add_comment") = 1
                        /\ LastStep = Ev("return", "add_comment", 0)
            ELSE /\ ~Mentions("add_comment")
                 /\ Calls("create_issue") <= 1
                 /\ Calls("create_issue") = 1 =>
                        /\ create_call.title =
                               <<"[Dotfiles Kaizen] ">> \o Domains[cur].name
                                   \o <<" - ", DateStr[today]>>
                        /\ create_call.labels = ConfiguredLabels \o <<Domains[cur].id>>
                 /\ exit_status = 0 =>
                        /\ Calls("create_issue") = 1
                        /\ LastStep = Ev("return", "create_issue", 0)

C1_Witness ==
    /\ exit_status = 0
    /\ existing_issue # 0
    /\ Requests("add_comment") = 1
    /\ issue_labels.present

Retried == {"search", "generate_response", "create_issue"}

\* C2: each retried operation issues at most 3 requests; a successful attempt
\* returns at once; failed attempt n < 3 is followed by a sleep of 2 * n
\* seconds and then attempt n + 1; a failed 3rd attempt raises with no further
\* sleep or request; an HTTP error status is treated as a transport failure.
C2_RetryPolicy ==
    /\ \A op \in Retried : Requests(op) <= 3
    /\ \A i \in 1..Len(log) :
           (log[i].kind = "request" /\ log[i].op \in Retried) =>
               LET n  == log[i].n
                   op == log[i].op
               IN /\ n \in 1..3
                  /\ (n = 1) <=> (i = 1)
                  /\ i + 1 <= Len(log)
                  /\ log[i + 1].op = op
                  /\ log[i + 1].kind = "ok" =>
                         /\ Len(log) = i + 1
                         /\ LastStep = Ev("return", op, 0)
                  /\ (log[i + 1].kind \in {"transport", "http_error"} /\ n < 3) =>
                         /\ i + 2 <= Len(log)
                         /\ log[i + 2] = Ev("sleep", op, 2 * n)
                         /\ i + 3 <= Len(log) => log[i + 3] = Ev("request", op, n + 1)
                         /\ i + 2 = Len(log) => LastStep = Ev("call", op, 0)
                  /\ (log[i + 1].kind \in {"transport", "http_error"} /\ n = 3) =>
                         /\ Len(log) = i + 1
                         /\ LastStep = Ev("raise", op, 0)
                         /\ pc = "exited"
                         /\ exit_status = 1

C2_Witness ==
    /\ log = << Ev("request", "create_issue", 1), Ev("transport", "create_issue", 1),
                Ev("sleep", "create_issue", 2),
                Ev("request", "create_issue", 2), Ev("http_error", "create_issue", 2),
                Ev("sleep", "create_issue", 4),
                Ev("request", "create_issue", 3), Ev("http_error", "create_issue", 3) >>
    /\ LastStep = Ev("raise", "create_issue", 0)

\* C3: find_existing_issue never raises, whatever the outcome of the search
\* request and whatever the shape of the response body.
C3_FindNeverRaises ==
    \A i \in 1..Len(steps) :
        ~(steps[i].kind = "raise" /\ steps[i].op = "find_existing_issue")

Rank(op) ==
    CASE op = "search"              -> 1
      [] op = "read"                -> 2
      [] op = "generate_response"   -> 3
      [] op = "find_existing_issue" -> 4
      [] OTHER                      -> 5

\* C4: the steps of run_domain_analysis run in the order collect_trends,
\* read_target_files, analyze_content, report_findings, each entered only
\* after the previous one returned; after a failing step nothing more is
\* called and main exits with status 1; main exits with status 0 only when
\* every step returned.
C4_Sequential ==
    /\ \A i, j \in 1..Len(steps) : i < j => Rank(steps[i].op) <= Rank(steps[j].op)
    /\ \A j \in 1..Len(steps) :
           steps[j].kind = "call" =>
               IF j = 1 THEN Rank(steps[j].op) = 1
               ELSE /\ steps[j - 1].kind = "return"
                    /\ Rank(steps[j - 1].op) = Rank(steps[j].op) - 1
    /\ \A i \in 1..Len(log) :
           log[i].kind = "request" => (steps # <<>> /\ log[i].op = LastStep.op)
    /\ \A i \in 1..Len(steps) :
           steps[i].kind = "raise" =>
               /\ i = Len(steps)
               /\ pc = "exited"
               /\ exit_status = 1
    /\ pc = "exited" => exit_status \in {0, 1}
    /\ exit_status = 0 =>
           /\ pc = "exited"
           /\ \A r \in 1..5 :
                  \E i \in 1..Len(steps) :
                      steps[i].kind = "return" /\ Rank(steps[i].op) = r

C4_Witness ==
    /\ pc = "exited"
    /\ exit_status = 1
    /\ steps # <<>>
    /\ LastStep = Ev("raise", "generate_response", 0)
    /\ Requests("generate_response") = 3
    /\ ~Mentions("find_existing_issue")
    /\ ~Mentions("create_issue")
    /\ ~Mentions("add_comment")

TrackingIssues(d) ==
    {i \in 1..Len(tracker) : tracker[i].open /\ tracker[i].domain = d}

C6_CommentNoRetry ==
    \A i \in 1..Len(log) :
        log[i].op = "add_comment" =>
            /\ Len(log) = 2
            /\ log[1].kind = "request"
            /\ Calls("add_comment") = 1
            /\ pc = "exited"
            /\ log[2].kind = "ok" =>
                   /\ LastStep = Ev("return", "add_comment", 0)
                   /\ exit_status = 0
            /\ log[2].kind # "ok" =>
                   /\ LastStep = Ev("raise", "add_comment", 0)
                   /\ exit_status = 1

C6_Witness ==
    /\ steps # <<>>
    /\ LastStep = Ev("raise", "add_comment", 0)
    /\ Requests("add_comment") = 1
    /\ log[2].kind = "http_error"
    /\ exit_status = 1

----------------------------------------------------------------------------
(* Properties of _extract_section *)

\* h is a whole line of t starting at 0-based offset p
HeaderLineAt(t, h, p) ==
    /\ p + Len(h) <= Len(t)
    /\ SubSeq(t, p + 1, p + Len(h)) = h
    /\ (p = 0 \/ t[p] = "\n")
    /\ (p + Len(h) = Len(t) \/ t[p + Len(h) + 1] = "\n")

\* the trimmed text after the header starting at p and before the one at q
Between(t, h, p, q) == Strip(SubSeq(t, p + Len(h) + 1, q))

HeaderPairs(t, ha, hb) ==
    { pq \in (0..Len(t)) \X (0..Len(t)) :
          /\ pq[1] < pq[2]
          /\ HeaderLineAt(t, ha, pq[1])
          /\ HeaderLineAt(t, hb, pq[2]) }

\* some line starts with "## " at a 0-based offset in from..(to - 1)
HeaderLineStartsIn(t, from, to) ==
    \E r \in from..(to - 1) :
        /\ r + 3 <= Len(t)
        /\ SubSeq(t, r + 1, r + 3) = <<"#", "#", " ">>
        /\ r > 0
        /\ t[r] = "\n"

\* C8 as stated: whenever the header "## A" is followed later by the header
\* "## B", extracting "A" returns the trimmed text between the two headers,
\* and the result never contains "## B".
C8_AsStated ==
    fn = "_extract_section" =>
        \A other \in SectionNames \ {section_name} :
            LET ha == Header(section_name)
                hb == Header(other)
            IN HeaderPairs(text, ha, hb) # {} =>
                   /\ \E pq \in HeaderPairs(text, ha, hb) :
                          ret.value = Between(text, ha, pq[1], pq[2])
                   /\ ~Contains(ret.value, hb)

\* C8 amended: when the first occurrence of the string "## A" in the text is
\* a header line "## A" and the first later line starting with "## " is the
\* header line "## B", extracting "A" returns the trimmed text between the two
\* header lines, and no line of the result after its first starts with "## ".
C8_NextHeader ==
    fn = "_extract_section" =>
        \A other \in SectionNames \ {section_name} :
            LET ha == Header(section_name)
                hb == Header(other)
            IN \A pq \in HeaderPairs(text, ha, hb) :
                   (/\ \A r \in 0..(pq[1] - 1) : SubSeq(text, r + 1, r + Len(ha)) # ha
                    /\ ~HeaderLineStartsIn(text, pq[1] + Len(ha), pq[2]))
                   => /\ ret.value = Between(text, ha, pq[1], pq[2])
                      /\ ~Contains(ret.value, <<"\n", "#", "#", " ">>)
                      /\ ~ret.raised

C8_Witness ==
    /\ fn = "_extract_section"
    /\ section_name = <<"A">>
    /\ text = <<"#", "#", " ", "A", "\n", " ", "x", "\n", "#", "#", " ", "B">>
    /\ ret.value = <<"x">>

----------------------------------------------------------------------------
(* Properties of the excluded-term filter *)

\* t occurs in str when letter case is ignored
ContainsIgnoringCase(str, t) ==
    \E off \in 0..(Len(str) - Len(t)) :
        \A k \in 1..Len(t) : LowerChar(str[off + k]) = LowerChar(t[k])

Clean(result) ==
    \A k \in 1..Len(exclude_terms) :
        /\ ~ContainsIgnoringCase(result.title, exclude_terms[k])
        /\ ~ContainsIgnoringCase(result.content, exclude_terms[k])

\* C7: the sources returned by collect_trends are exactly the results whose
\* title and content contain no excluded term, letter case ignored, in their
\* original order and unchanged.
C7_FilterExact ==
    fn = "collect_trends" =>
        LET kept == Ascending({i \in 1..Len(results) : Clean(results[i])})
        IN /\ Len(ret.sources) = Len(kept)
           /\ \A k \in 1..Len(kept) : ret.sources[k] = results[kept[k]]

C7_Witness ==
    /\ fn = "collect_trends"
    /\ exclude_terms = << <<"S", "P">> >>
    /\ results = << [title |-> <<"o", "k">>, content |-> <<"k", "o">>],
                    [title |-> <<"o", "k">>, content |-> <<"s", "P", "o">>],
                    [title |-> <<"S", "p">>, content |-> <<>>] >>
    /\ ret.sources = << [title |-> <<"o", "k">>, content |-> <<"k", "o">>] >>

----------------------------------------------------------------------------
(* Properties of _format_sources *)

\* Python's  s.split(sep)  for a one-character separator
RECURSIVE Split(_, _)
Split(str, sep) ==
    LET cuts == {i \in 1..Len(str) : str[i] = sep}
    IN IF cuts = {} THEN <<str>>
       ELSE LET c == CHOOSE i \in cuts : \A j \in cuts : i <= j
            IN <<SubSeq(str, 1, c - 1)>> \o Split(SubSeq(str, c + 1, Len(str)), sep)

----------------------------------------------------------------------------
(* Properties of read_target_files *)

Matched == Flatten(target_patterns)

\* the k-th matched file is reached by the loops and its read_text succeeds
ReadSuccessfully(k) ==
    /\ file_state[Matched[k]] = "ok"
    /\ \A j \in 1..(k - 1) : file_state[Matched[j]] # "decode_error"

\* the sections of the matched files that can be read, in order
RECURSIVE ReadableSections(_)
ReadableSections(fs) ==
    IF fs = <<>> THEN <<>>
    ELSE (IF file_state[Head(fs)] = "ok" THEN <<Section(Head(fs))>> ELSE <<>>)
             \o ReadableSections(Tail(fs))

\* C11: read_target_files returns "No matching files found." whenever no
\* pattern matches a file (an empty pattern list included), never an empty
\* string and never an error; whenever at least one matched file is read
\* successfully, the result is the labelled sections joined by the separator,
\* not the fallback literal.
C11_FallbackOrSections ==
    fn = "read_target_files" =>
        /\ Matched = <<>> =>
               ret = [raised |-> FALSE, value |-> <<"No matching files found.">>]
        /\ (\E k \in 1..Len(Matched) : ReadSuccessfully(k)) =>
               /\ ~ret.raised
               /\ ret.value = Join(ReadableSections(Matched), <<"\n\n---\n\n">>)
               /\ ret.value # <<"No matching files found.">>

----------------------------------------------------------------------------
(* Properties of analyze_content *)

HeaderLines(t, name) == {p \in 0..Len(t) : HeaderLineAt(t, Header(name), p)}

\* the response has the three second-level headers of the system prompt, once
\* each and in the mandated order
FollowsPromptShape(t) ==
    /\ \A name \in {PROMPT_GAP, PROMPT_RECOMMENDATIONS, PROMPT_REFERENCES} :
           Cardinality(HeaderLines(t, name)) = 1
    /\ \A p \in HeaderLines(t, PROMPT_GAP), q \in HeaderLines(t, PROMPT_RECOMMENDATIONS),
          r \in HeaderLines(t, PROMPT_REFERENCES) : p < q /\ q < r

\* C12: for a response of the shape the system prompt mandates, gap_analysis
\* and recommendations are the bodies of the response's gap-analysis and
\* recommendations sections, each from its second-level header to the next
\* one, and full_response is the raw response.
C12_PromptSectionsExtracted ==
    (fn = "analyze_content" /\ FollowsPromptShape(text)) =>
        \A p \in HeaderLines(text, PROMPT_GAP),
           q \in HeaderLines(text, PROMPT_RECOMMENDATIONS),
           r \in HeaderLines(text, PROMPT_REFERENCES) :
            /\ ret.gap_analysis = Between(text, Header(PROMPT_GAP), p, q)
            /\ ret.recommendations = Between(text, Header(PROMPT_RECOMMENDATIONS), q, r)
            /\ ret.full_response = text

----------------------------------------------------------------------------
(* Properties of the tracker across domains *)

\* C13: a completed run of one domain never posts its comment to the tracking
\* issue created for another domain, also when one domain's name is a prefix
\* of the other's.
C13_CommentOnOwnIssue ==
    (exit_status = 0 /\ steps # <<>> /\ LastStep = Ev("return", "add_comment", 0)) =>
        /\ existing_issue \in 1..Len(tracker)
        /\ tracker[existing_issue].domain = cur

====
